---- MODULE Spec2Model ----
(***************************************************************************)
(* Model of src/tools/wallet_dump_masterkey.cpp: one run of main(), from   *)
(* the command line to the return statement.  The run is a sequential      *)
(* program; pc is its position.  The wallet library it is built against    *)
(* (store loading, the decryption verifier, the key manager, ParseHex) is  *)
(* the environment: its answers are fixed by env, chosen in Init.          *)
(* The text of a WIF string is not modelled: a key line is identified by   *)
(* the key ID it is printed for.                                           *)
(***************************************************************************)
EXTENDS Integers, Sequences, FiniteSets, TLC

VARIABLES
    pc,          \* position of main()
    argc,        \* number of entries of argv (program name included)
    hexArg,      \* argv[2] as a sequence of characters (<<>> when absent)
    env,         \* the store and wallet library's answers for this run
    hex,         \* std::string hex
    load_ok,     \* bool load_ok
    wallet,      \* TRUE iff the unique_ptr wallet is non-null
    mk,          \* contents of the buffer of std::vector<unsigned char> mk
    vMasterKey,  \* contents of the buffer of CKeyingMaterial vMasterKey
    spk_man,     \* "null", "legacy" or "descriptor"
    ok,          \* bool ok
    keys,        \* std::set<CKeyID> keys
    todo,        \* the part of keys the range-for has not visited yet
    output,      \* lines written so far, each tagged with its stream
    calls,       \* library calls made so far, in order
    exitCode     \* value returned by main(), NotReturned while running

vars == <<pc, argc, hexArg, env, hex, load_ok, wallet, mk, vMasterKey,
          spk_man, ok, keys, todo, output, calls, exitCode>>

---------------------------------------------------------------------------
(* Bounds of the model *)

MaxArgc == 4
MaxKeyId == 2

(* Program constants *)

HexLen == 64

NotReturned == 0 - 1
KeyIds == 1..MaxKeyId
NoKid == 0

---------------------------------------------------------------------------
(* Command-line strings *)

Fill(n, c) == [i \in 1..n |-> c]
Poke(s, p, c) == [i \in 1..Len(s) |-> IF i = p THEN c ELSE s[i]]

HexArgs ==
    {Fill(n, c) : n \in {0, HexLen - 1, HexLen, HexLen + 1}, c \in {"0", "f"}}
    \cup {Poke(Fill(HexLen, "f"), p, c) :
            p \in {1, 2, HexLen}, c \in {" ", "z", "e"}}

(* ParseHex and its helpers *)

HexDigit(c) ==
    CASE c = "0" -> 0
      [] c = "e" -> 14
      [] c = "f" -> 15
      [] OTHER -> 0 - 1

IsSpace(c) == c = " "

\* s[i], with the terminating NUL past the end of the string
CharAt(s, i) == IF i \in 1..Len(s) THEN s[i] ELSE "NUL"

RECURSIVE SkipSpace(_, _)
SkipSpace(s, i) == IF IsSpace(CharAt(s, i)) THEN SkipSpace(s, i + 1) ELSE i

RECURSIVE ParseHexFrom(_, _, _)
ParseHexFrom(s, i, vch) ==
    LET j == SkipSpace(s, i)
        hi == HexDigit(CharAt(s, j))
        lo == HexDigit(CharAt(s, j + 1))
    IN  IF hi < 0 THEN vch
        ELSE IF lo < 0 THEN vch
        ELSE ParseHexFrom(s, j + 2, Append(vch, (hi * 16 + lo) % 256))

ParseHex(s) == ParseHexFrom(s, 1, <<>>)

memory_cleanse(buf) == [i \in 1..Len(buf) |-> 0]

---------------------------------------------------------------------------
(* The store and the wallet library *)

StoreKey == [i \in 1..(HexLen \div 2) |-> 255]

Envs ==
    {[load |-> l, legacy |-> lg, descriptor |-> ds, rec |-> r, fails |-> f] :
        l \in {"ok", "db_throws", "load_throws"},
        lg \in BOOLEAN, ds \in BOOLEAN,
        r \in [KeyIds -> {"none", "encrypted", "plain"}],
        f \in SUBSET KeyIds}

EncryptedIds(e) == {k \in KeyIds : e.rec[k] = "encrypted"}
PlainIds(e) == {k \in KeyIds : e.rec[k] = "plain"}

\* ScriptPubKeyMan::CheckDecryptionKey
CheckDecryptionKey(e, master_key, accept_no_keys) ==
    IF EncryptedIds(e) = {} THEN accept_no_keys
    ELSE \A k \in EncryptedIds(e) : master_key = StoreKey

\* ScriptPubKeyMan::GetKeys
GetKeys(e) == EncryptedIds(e) \cup PlainIds(e)

\* ScriptPubKeyMan::GetKey
GetKey(e, kid) == kid \notin e.fails

---------------------------------------------------------------------------
(* Output lines and library calls *)

Line(s, t, k) == [stream |-> s, text |-> t, kid |-> k]
Call(f, key, flag, k) == [fn |-> f, key |-> key, flag |-> flag, kid |-> k]
Plain(f) == Call(f, <<>>, FALSE, NoKid)

StdOut == SelectSeq(output, LAMBDA l : l.stream = "cout")
StdErr == SelectSeq(output, LAMBDA l : l.stream = "cerr")

Called(f) == \E i \in 1..Len(calls) : calls[i].fn = f
CountCalls(f) == Cardinality({i \in 1..Len(calls) : calls[i].fn = f})

---------------------------------------------------------------------------
Init ==
    /\ pc = "main"
    /\ argc \in 1..MaxArgc
    /\ hexArg \in (IF argc >= 3 THEN HexArgs ELSE {<<>>})
    /\ env \in Envs
    /\ env.fails \subseteq GetKeys(env)
    /\ hex = <<>>
    /\ load_ok = FALSE
    /\ wallet = FALSE
    /\ mk = <<>>
    /\ vMasterKey = <<>>
    /\ spk_man = "null"
    /\ ok = FALSE
    /\ keys = {}
    /\ todo = {}
    /\ output = <<>>
    /\ calls = <<>>
    /\ exitCode = NotReturned

Return(code) ==
    /\ pc' = "done"
    /\ exitCode' = code

\* lines 42-46
UsageArgc ==
    /\ pc = "main"
    /\ argc < 3
    /\ output' = Append(output, Line("cerr", "Usage", NoKid))
    /\ Return(1)
    /\ UNCHANGED <<argc, hexArg, env, hex, load_ok, wallet, mk, vMasterKey,
                   spk_man, ok, keys, todo, calls>>

\* lines 42, 48-49
ReadArgs ==
    /\ pc = "main"
    /\ ~(argc < 3)
    /\ hex' = hexArg
    /\ pc' = "hexsize"
    /\ UNCHANGED <<argc, hexArg, env, load_ok, wallet, mk, vMasterKey,
                   spk_man, ok, keys, todo, output, calls, exitCode>>

\* lines 51-54
HexSizeFail ==
    /\ pc = "hexsize"
    /\ Len(hex) # HexLen
    /\ output' = Append(output, Line("cerr", "Master key must be 64 hex chars", NoKid))
    /\ Return(1)
    /\ UNCHANGED <<argc, hexArg, env, hex, load_ok, wallet, mk, vMasterKey,
                   spk_man, ok, keys, todo, calls>>

\* lines 51, 56-58
EccStart ==
    /\ pc = "hexsize"
    /\ ~(Len(hex) # HexLen)
    /\ calls' = Append(calls, Plain("ECC_Start"))
    /\ pc' = "load"
    /\ UNCHANGED <<argc, hexArg, env, hex, load_ok, wallet, mk, vMasterKey,
                   spk_man, ok, keys, todo, output, exitCode>>

\* LoadWallet with the catch block leaving load_ok set
LoadWallet_CatchSetsOk ==
    /\ pc = "load"
    /\ calls' = Append(calls, Plain("LoadWallet"))
    /\ IF env.load = "ok"
         THEN /\ wallet' = TRUE
              /\ load_ok' = TRUE
              /\ output' = output
         ELSE /\ wallet' = (env.load = "load_throws")
              /\ load_ok' = TRUE
              /\ output' = Append(output, Line("cerr", "Failed to open wallet", NoKid))
    /\ pc' = "loaded"
    /\ UNCHANGED <<argc, hexArg, env, hex, mk, vMasterKey, spk_man, ok, keys,
                   todo, exitCode>>

\* lines 79-90
LoadWallet ==
    /\ pc = "load"
    /\ calls' = Append(calls, Plain("LoadWallet"))
    /\ IF env.load = "ok"
         THEN /\ wallet' = TRUE
              /\ load_ok' = TRUE
              /\ output' = output
         ELSE /\ wallet' = (env.load = "load_throws")
              /\ load_ok' = FALSE
              /\ output' = Append(output, Line("cerr", "Failed to open wallet", NoKid))
    /\ pc' = "loaded"
    /\ UNCHANGED <<argc, hexArg, env, hex, mk, vMasterKey, spk_man, ok, keys,
                   todo, exitCode>>

\* lines 92-96
LoadFailed ==
    /\ pc = "loaded"
    /\ (~load_ok \/ ~wallet)
    /\ output' = Append(output, Line("cerr", "Could not load wallet", NoKid))
    /\ calls' = Append(calls, Plain("ECC_Stop"))
    /\ Return(1)
    /\ UNCHANGED <<argc, hexArg, env, hex, load_ok, wallet, mk, vMasterKey,
                   spk_man, ok, keys, todo>>

\* lines 92, 98-100
ParseKey ==
    /\ pc = "loaded"
    /\ ~(~load_ok \/ ~wallet)
    /\ calls' = Append(calls, Plain("ParseHex"))
    /\ mk' = ParseHex(hex)
    /\ vMasterKey' = mk'
    /\ pc' = "spk"
    /\ UNCHANGED <<argc, hexArg, env, hex, load_ok, wallet, spk_man, ok, keys,
                   todo, output, exitCode>>

\* lines 104-109
FindSpkMan ==
    /\ pc = "spk"
    /\ spk_man' = IF env.legacy THEN "legacy"
                  ELSE IF env.descriptor THEN "descriptor"
                  ELSE "null"
    /\ pc' = "spkcheck"
    /\ UNCHANGED <<argc, hexArg, env, hex, load_ok, wallet, mk, vMasterKey,
                   ok, keys, todo, output, calls, exitCode>>

\* NoSpkMan returning without ECC_Stop
NoSpkMan_NoStop ==
    /\ pc = "spkcheck"
    /\ spk_man = "null"
    /\ output' = Append(output, Line("cerr", "No ScriptPubKeyMan found", NoKid))
    /\ vMasterKey' = memory_cleanse(vMasterKey)
    /\ calls' = Append(calls, Plain("memory_cleanse"))
    /\ Return(1)
    /\ UNCHANGED <<argc, hexArg, env, hex, load_ok, wallet, mk, spk_man, ok,
                   keys, todo>>

\* lines 111-116
NoSpkMan ==
    /\ pc = "spkcheck"
    /\ spk_man = "null"
    /\ output' = Append(output, Line("cerr", "No ScriptPubKeyMan found", NoKid))
    /\ vMasterKey' = memory_cleanse(vMasterKey)
    /\ calls' = calls \o <<Plain("memory_cleanse"), Plain("ECC_Stop")>>
    /\ Return(1)
    /\ UNCHANGED <<argc, hexArg, env, hex, load_ok, wallet, mk, spk_man, ok,
                   keys, todo>>

\* the verifier called with accept_no_keys = false
AcceptNoKeys_False == FALSE

\* line 119
AcceptNoKeys == TRUE

\* lines 111, 118-119
Verify ==
    /\ pc = "spkcheck"
    /\ spk_man # "null"
    /\ calls' = Append(calls, Call("CheckDecryptionKey", vMasterKey, AcceptNoKeys, NoKid))
    /\ ok' = CheckDecryptionKey(env, vMasterKey, AcceptNoKeys)
    /\ pc' = "verified"
    /\ UNCHANGED <<argc, hexArg, env, hex, load_ok, wallet, mk, vMasterKey,
                   spk_man, keys, todo, output, exitCode>>

\* WrongKey returning the generic failure code
WrongKey_ExitOne ==
    /\ pc = "verified"
    /\ ~ok
    /\ output' = Append(output, Line("cerr", "Master key did NOT decrypt wallet keys", NoKid))
    /\ vMasterKey' = memory_cleanse(vMasterKey)
    /\ calls' = calls \o <<Plain("memory_cleanse"), Plain("ECC_Stop")>>
    /\ Return(1)
    /\ UNCHANGED <<argc, hexArg, env, hex, load_ok, wallet, mk, spk_man, ok,
                   keys, todo>>

\* lines 120-125
WrongKey ==
    /\ pc = "verified"
    /\ ~ok
    /\ output' = Append(output, Line("cerr", "Master key did NOT decrypt wallet keys", NoKid))
    /\ vMasterKey' = memory_cleanse(vMasterKey)
    /\ calls' = calls \o <<Plain("memory_cleanse"), Plain("ECC_Stop")>>
    /\ Return(2)
    /\ UNCHANGED <<argc, hexArg, env, hex, load_ok, wallet, mk, spk_man, ok,
                   keys, todo>>

\* lines 120, 127-130
Banner ==
    /\ pc = "verified"
    /\ ok
    /\ output' = Append(output, Line("cout", "Master key accepted", NoKid))
    /\ calls' = Append(calls, Plain("GetKeys"))
    /\ keys' = GetKeys(env)
    /\ todo' = keys'
    /\ pc' = "loop"
    /\ UNCHANGED <<argc, hexArg, env, hex, load_ok, wallet, mk, vMasterKey,
                   spk_man, ok, exitCode>>

\* a container iterated from its largest element
NextKey_Max(S) == CHOOSE k \in S : \A j \in S : k >= j

\* line 131: the element a std::set iterator yields next
NextKey(S) == CHOOSE k \in S : \A j \in S : k <= j

\* DumpKey without the continue: a failed key is printed as well
DumpKey_NoContinue ==
    /\ pc = "loop"
    /\ todo # {}
    /\ LET kid == NextKey(todo) IN
        /\ calls' = Append(calls, Call("GetKey", <<>>, GetKey(env, kid), kid))
        /\ output' = IF ~GetKey(env, kid)
                       THEN output \o <<Line("cerr", "Could not get private key", kid),
                                        Line("cout", "KeyID WIF", kid)>>
                       ELSE Append(output, Line("cout", "KeyID WIF", kid))
        /\ todo' = todo \ {kid}
    /\ UNCHANGED <<pc, argc, hexArg, env, hex, load_ok, wallet, mk, vMasterKey,
                   spk_man, ok, keys, exitCode>>

\* DumpKey returning 1 at the first key that cannot be retrieved
DumpKey_AbortOnFail ==
    /\ pc = "loop"
    /\ todo # {}
    /\ LET kid == NextKey(todo) IN
        /\ calls' = Append(calls, Call("GetKey", <<>>, GetKey(env, kid), kid))
        /\ output' = IF ~GetKey(env, kid)
                       THEN Append(output, Line("cerr", "Could not get private key", kid))
                       ELSE Append(output, Line("cout", "KeyID WIF", kid))
        /\ todo' = todo \ {kid}
        /\ IF ~GetKey(env, kid) THEN Return(1)
                                ELSE UNCHANGED <<pc, exitCode>>
    /\ UNCHANGED <<argc, hexArg, env, hex, load_ok, wallet, mk, vMasterKey,
                   spk_man, ok, keys>>

\* lines 131-141, one iteration of the loop body
DumpKey ==
    /\ pc = "loop"
    /\ todo # {}
    /\ LET kid == NextKey(todo) IN
        /\ calls' = Append(calls, Call("GetKey", <<>>, GetKey(env, kid), kid))
        /\ output' = IF ~GetKey(env, kid)
                       THEN Append(output, Line("cerr", "Could not get private key", kid))
                       ELSE Append(output, Line("cout", "KeyID WIF", kid))
        /\ todo' = todo \ {kid}
    /\ UNCHANGED <<pc, argc, hexArg, env, hex, load_ok, wallet, mk, vMasterKey,
                   spk_man, ok, keys, exitCode>>

\* lines 131, 143-147
Cleanup ==
    /\ pc = "loop"
    /\ todo = {}
    /\ vMasterKey' = memory_cleanse(vMasterKey)
    /\ calls' = calls \o <<Plain("memory_cleanse"), Plain("ECC_Stop")>>
    /\ output' = Append(output, Line("cout", "Done.", NoKid))
    /\ Return(0)
    /\ UNCHANGED <<argc, hexArg, env, hex, load_ok, wallet, mk, spk_man, ok,
                   keys, todo>>

Next ==
    \/ UsageArgc
    \/ ReadArgs
    \/ HexSizeFail
    \/ EccStart
    \/ LoadWallet
    \/ LoadFailed
    \/ ParseKey
    \/ FindSpkMan
    \/ NoSpkMan
    \/ Verify
    \/ WrongKey
    \/ Banner
    \/ DumpKey
    \/ Cleanup

Spec == Init /\ [][Next]_vars

---------------------------------------------------------------------------
(* Properties *)

IsKeyLine(l) == l.stream = "cout" /\ l.text = "KeyID WIF"
IsBanner(l) == l.stream = "cout" /\ l.text = "Master key accepted"
IsDone(l) == l.stream = "cout" /\ l.text = "Done."
IsWarning(l) == l.stream = "cerr" /\ l.text = "Could not get private key"

CallIdx(f) == {i \in 1..Len(calls) : calls[i].fn = f}
VerifierRejected == Called("CheckDecryptionKey") /\ ~ok
Retrievable == {k \in GetKeys(env) : GetKey(env, k)}
FailedKids == {calls[i].kid : i \in {j \in CallIdx("GetKey") : ~calls[j].flag}}
KeyBytes == HexLen \div 2
ArgsValid == argc >= 3 /\ Len(hexArg) = HexLen

\* C1: once the verifier has rejected the key, standard output stays empty,
\* the key manager is never asked for keys, and the run returns 2.
C1_WrongKeyExitsTwo ==
    VerifierRejected =>
        /\ StdOut = <<>>
        /\ ~Called("GetKeys")
        /\ ~Called("GetKey")
        /\ pc = "done" => exitCode = 2

C1_Witness ==
    /\ pc = "done"
    /\ VerifierRejected
    /\ EncryptedIds(env) # {}
    /\ hexArg = Poke(Fill(HexLen, "f"), HexLen, "e")
    /\ exitCode = 2

\* C2: after main has returned, the buffers the key bytes were copied into
\* (mk and vMasterKey) hold no non-zero byte.
C2_KeyBuffersZeroed ==
    pc = "done" =>
        /\ \A i \in 1..Len(mk) : mk[i] = 0
        /\ \A i \in 1..Len(vMasterKey) : vMasterKey[i] = 0

\* C3: a run with other than exactly two positional arguments, or with a key
\* argument that is not 64 characters long, returns 1 with a message on the
\* error stream, without ECC_Start, without loading the store and with
\* nothing on standard output.
C3_UsageErrors ==
    (pc = "done" /\ (argc # 3 \/ Len(hexArg) # HexLen)) =>
        /\ exitCode = 1
        /\ StdErr # <<>>
        /\ StdOut = <<>>
        /\ ~Called("ECC_Start")
        /\ ~Called("LoadWallet")

\* C4: a run that returns 0 has written the banner, then exactly one key line
\* per retrievable key ID, then the completion line; and at no time is a key
\* line written before the banner or after the completion line.
C4_StdoutShape ==
    /\ (pc = "done" /\ exitCode = 0) =>
          LET so == StdOut
              n == Len(so)
          IN  /\ n = Cardinality(Retrievable) + 2
              /\ IsBanner(so[1])
              /\ IsDone(so[n])
              /\ \A i \in 2..(n - 1) : IsKeyLine(so[i])
              /\ {so[i].kid : i \in 2..(n - 1)} = Retrievable
    /\ \A i \in 1..Len(StdOut) :
          IsKeyLine(StdOut[i]) =>
              /\ IsBanner(StdOut[1])
              /\ \A j \in 1..Len(StdOut) : IsDone(StdOut[j]) => j > i

C4_Witness ==
    /\ pc = "done"
    /\ exitCode = 0
    /\ Len(StdOut) = 3
    /\ env.fails # {}

\* C5: a key ID whose GetKey fails gets a message on the error stream and no
\* key line; every other key ID is still visited and the run still writes the
\* completion line and returns 0.
C5_PerKeyFailureIsSkipped ==
    /\ \A k \in FailedKids :
          /\ \E i \in 1..Len(output) : IsWarning(output[i]) /\ output[i].kid = k
          /\ \A i \in 1..Len(output) : IsKeyLine(output[i]) => output[i].kid # k
    /\ (pc = "done" /\ FailedKids # {}) =>
          /\ exitCode = 0
          /\ IsDone(output[Len(output)])
          /\ {calls[i].kid : i \in CallIdx("GetKey")} = GetKeys(env)
          /\ {output[i].kid : i \in {j \in 1..Len(output) : IsKeyLine(output[j])}}
                = GetKeys(env) \ FailedKids

C5_Witness ==
    /\ pc = "done"
    /\ FailedKids # {}
    /\ \E i \in 1..Len(output) :
          /\ IsKeyLine(output[i])
          /\ \E k \in FailedKids : k < output[i].kid

LoadFailure == Called("LoadWallet") /\ env.load # "ok"
NoKeyManager ==
    /\ Called("LoadWallet")
    /\ env.load = "ok"
    /\ ~env.legacy
    /\ ~env.descriptor

\* C6: when the store cannot be opened or loaded, or the wallet has no key
\* manager, the run returns 1 with a message on the error stream and nothing
\* on standard output; after a load failure the key is never parsed and the
\* verifier is never invoked.
C6_OtherFatalExitsOne ==
    /\ LoadFailure =>
          /\ ~Called("ParseHex")
          /\ ~Called("CheckDecryptionKey")
          /\ mk = <<>>
          /\ vMasterKey = <<>>
    /\ (LoadFailure \/ NoKeyManager) => StdOut = <<>>
    /\ (pc = "done" /\ (LoadFailure \/ NoKeyManager)) =>
          /\ exitCode = 1
          /\ StdErr # <<>>

C6_Witness ==
    /\ pc = "done"
    /\ exitCode = 1
    /\ \/ LoadFailure /\ wallet
       \/ NoKeyManager /\ Called("ParseHex")

PerKeyLines == SelectSeq(output, LAMBDA l : IsKeyLine(l) \/ IsWarning(l))
Visited == SelectSeq(calls, LAMBDA c : c.fn = "GetKey")

\* C8: key IDs are visited, and their key lines and warnings written, in
\* strictly ascending key ID order, and a completed export has visited
\* exactly the key IDs of the store.
C8_AscendingOrder ==
    /\ \A i, j \in 1..Len(Visited) : i < j => Visited[i].kid < Visited[j].kid
    /\ \A i, j \in 1..Len(PerKeyLines) :
          i < j => PerKeyLines[i].kid < PerKeyLines[j].kid
    /\ Len(PerKeyLines) = Len(Visited)
    /\ \A i \in 1..Len(PerKeyLines) : PerKeyLines[i].kid = Visited[i].kid
    /\ (pc = "done" /\ exitCode = 0) =>
          {Visited[i].kid : i \in 1..Len(Visited)} = GetKeys(env)

C8_Witness ==
    /\ pc = "done"
    /\ Len(Visited) >= 2
    /\ \E i, j \in 1..Len(PerKeyLines) :
          IsWarning(PerKeyLines[i]) /\ IsKeyLine(PerKeyLines[j])

\* C9: ECC_Start is called at most once and only for validated arguments;
\* every use of the verifier and of the key manager lies after ECC_Start and
\* before ECC_Stop; a run that has returned has called ECC_Stop exactly as
\* often as ECC_Start, and a usage error calls neither.
C9_EccStartStop ==
    /\ CountCalls("ECC_Start") <= 1
    /\ CountCalls("ECC_Stop") <= CountCalls("ECC_Start")
    /\ Called("ECC_Start") => ArgsValid
    /\ \A i \in CallIdx("ECC_Stop") : \E s \in CallIdx("ECC_Start") : s < i
    /\ \A i \in 1..Len(calls) :
          calls[i].fn \in {"LoadWallet", "CheckDecryptionKey", "GetKeys", "GetKey"} =>
              /\ \E s \in CallIdx("ECC_Start") : s < i
              /\ \A t \in CallIdx("ECC_Stop") : t > i
    /\ pc = "done" =>
          /\ CountCalls("ECC_Stop") = CountCalls("ECC_Start")
          /\ ~ArgsValid => ~Called("ECC_Start") /\ ~Called("ECC_Stop")
          /\ ArgsValid => calls[Len(calls)].fn = "ECC_Stop"

C9_Witness ==
    /\ pc = "done"
    /\ exitCode = 1
    /\ NoKeyManager
    /\ CountCalls("ECC_Start") = 1
    /\ CountCalls("ECC_Stop") = 1

\* C10: every key handed to the verifier is exactly 32 bytes long, whatever
\* 64-character argument was given.
C10_VerifierKeyLength ==
    \A i \in CallIdx("CheckDecryptionKey") : Len(calls[i].key) = KeyBytes

====
